---- MODULE Spec2Model ----
(***************************************************************************)
(* Model of the CharLS session wrapper (src/src/lib.rs): the lazily        *)
(* created encoder and decoder handles of a CharLS value, the ordered      *)
(* native call sequences of decode_with_stride, decode, encode and         *)
(* get_frame_info, the translation of native status codes, and Drop.       *)
(*                                                                         *)
(* The native JPEG-LS engine (charls_sys) is not part of src/; it is       *)
(* modelled here from the interface section of the specification, as a     *)
(* per-handle state machine.  Its status results can additionally be       *)
(* forced to an arbitrary nonzero code by the environment (the "orc"       *)
(* argument of every operation).                                           *)
(***************************************************************************)
EXTENDS Integers, Sequences, FiniteSets, TLC

VARIABLES session, nat, last

vars == <<session, nat, last>>

----------------------------------------------------------------------------
(* Bounds of the model *)

NSessions == 2      \* CharLS values that exist side by side
MaxDim == 2         \* width and height range over 1..MaxDim
MaxPixels == 2      \* pixel buffers have 1..MaxPixels bytes
MaxByte == 1        \* a pixel byte ranges over 0..MaxByte
MaxNear == 1        \* the near argument ranges over 0..MaxNear
MaxStride == 2      \* the stride argument ranges over 0..MaxStride
MaxErr == 2         \* forced native error codes range over 1..MaxErr

Sessions == 1..NSessions
Handles == 1..(2 * NSessions)
ErrCodes == 1..MaxErr

----------------------------------------------------------------------------
(* Values *)

NULL == 0

None == <<>>
Some(x) == <<x>>
is_some(o) == o # None
unwrap(o) == o[1]

is_null(p) == p = NULL

Max(a, b) == IF a >= b THEN a ELSE b

Zeros(n) == [i \in 1..n |-> 0]

Pad(row, n) == row \o Zeros(Max(n - Len(row), 0))

FrameInfo(w, h, b, c) ==
    [width |-> w, height |-> h, bits_per_sample |-> b, component_count |-> c]

charls_frame_info(fi) ==
    <<fi.width, fi.height, fi.bits_per_sample, fi.component_count>>

Ok(v) == [tag |-> "Ok", kind |-> "", code |-> 0, val |-> v]
Err(k, c) == [tag |-> "Err", kind |-> k, code |-> c, val |-> <<>>]

InitCodec == Err("InitCodec", 0)
ComputeSize == Err("ComputeSize", 0)
JpegLsError(code) == Err("JpegLsError", code)

\* lib.rs 258-264
translate_error_generic(code) == IF code # 0 THEN JpegLsError(1) ELSE Ok(<<>>)

translate_error(code) == IF code # 0 THEN JpegLsError(code) ELSE Ok(<<>>)

is_err(r) == r.tag = "Err"

----------------------------------------------------------------------------
(* The native engine, per handle.                                          *)
(* A stream is <<width, height, bits_per_sample, component_count>>         *)
(* followed by width * height * component_count sample bytes.              *)

HeaderLen == 4
Slack == 1
NativeReject == 9

NoBinding == [state |-> "none", buf |-> "", data |-> <<>>]
Live(buf, data) == [state |-> "live", buf |-> buf, data |-> data]
Stale(b) == IF b.state = "none" THEN b ELSE [state |-> "stale", buf |-> b.buf, data |-> <<>>]

NoHandle ==
    [kind |-> "none", owner |-> 0, destroyed |-> 0, src |-> NoBinding, dst |-> NoBinding,
     hdr |-> None, fi |-> None, near |-> 0, written |-> 0]

NewHandle(kind, owner) == [NoHandle EXCEPT !.kind = kind, !.owner = owner]

Usable(n, h, kind) == h \in Handles /\ n[h].kind = kind /\ n[h].destroyed = 0

NatRet(n, st, out, buf) == [nat |-> n, st |-> st, out |-> out, buf |-> buf]

Forced(orc, k) == IF orc.at = k THEN orc.code ELSE 0

SampleCount(t) == t[1] * t[2] * t[4]

ValidFrame(t) == t[1] >= 1 /\ t[2] >= 1 /\ t[3] = 8 /\ t[4] = 1

Quant(p, near) == p - (p % (near + 1))

Stream(t, near, px) == t \o [i \in 1..Len(px) |-> Quant(px[i], near)]

ValidStream(d) ==
    /\ Len(d) >= HeaderLen
    /\ ValidFrame(SubSeq(d, 1, 4))
    /\ Len(d) >= HeaderLen + SampleCount(SubSeq(d, 1, 4))

Row(d, t, r) == SubSeq(d, HeaderLen + (r - 1) * t[1] * t[4] + 1, HeaderLen + r * t[1] * t[4])

RECURSIVE Rows(_, _, _, _)
Rows(d, t, stride, r) ==
    IF r > t[2] THEN <<>>
    ELSE Pad(Row(d, t, r), stride) \o Rows(d, t, stride, r + 1)

FreshHandle(n) ==
    IF \E h \in Handles : n[h].kind = "none"
    THEN CHOOSE h \in Handles : n[h].kind = "none" /\ \A g \in Handles : n[g].kind = "none" => h <= g
    ELSE NULL

\* create: a nullable handle
native_create(n, kind, owner, orc) ==
    LET h == IF orc.null THEN NULL ELSE FreshHandle(n)
    IN IF is_null(h) THEN NatRet(n, 0, <<NULL>>, <<>>)
       ELSE NatRet([n EXCEPT ![h] = NewHandle(kind, owner)], 0, <<h>>, <<>>)

\* destroy(handle)
native_destroy(n, h, kind) ==
    IF h \in Handles
    THEN [n EXCEPT ![h].destroyed = @ + 1, ![h].src = Stale(@), ![h].dst = Stale(@)]
    ELSE n

\* bind-source-buffer(handle, pointer, length) -> status: a pure registration
charls_jpegls_decoder_set_source_buffer(n, h, buf, data, f) ==
    IF ~Usable(n, h, "decoder") THEN NatRet(n, NativeReject, <<>>, <<>>)
    ELSE IF f # 0 THEN NatRet(n, f, <<>>, <<>>)
    ELSE NatRet([n EXCEPT ![h].src = Live(buf, data), ![h].hdr = None], 0, <<>>, <<>>)

\* read-header(handle) -> status
charls_jpegls_decoder_read_header(n, h, f) ==
    IF ~Usable(n, h, "decoder") THEN NatRet(n, NativeReject, <<>>, <<>>)
    ELSE IF f # 0 THEN NatRet(n, f, <<>>, <<>>)
    ELSE IF n[h].src.state # "live" \/ ~ValidStream(n[h].src.data)
         THEN NatRet(n, NativeReject, <<>>, <<>>)
    ELSE NatRet([n EXCEPT ![h].hdr = Some(SubSeq(n[h].src.data, 1, HeaderLen))], 0, <<>>, <<>>)

\* get-frame-info(handle) -> {width, height, bits_per_sample, component_count} + status
charls_jpegls_decoder_get_frame_info(n, h, f) ==
    IF ~Usable(n, h, "decoder") THEN NatRet(n, NativeReject, <<>>, <<>>)
    ELSE IF f # 0 THEN NatRet(n, f, <<>>, <<>>)
    ELSE IF n[h].hdr = None THEN NatRet(n, NativeReject, <<>>, <<>>)
    ELSE NatRet(n, 0, SubSeq(unwrap(n[h].hdr), 1, 4), <<>>)

NaturalStride(t) == t[1] * t[4]

\* get-destination-size(handle, stride) -> size + status
charls_jpegls_decoder_get_destination_size(n, h, stride, f) ==
    IF ~Usable(n, h, "decoder") THEN NatRet(n, NativeReject, <<>>, <<>>)
    ELSE IF f # 0 THEN NatRet(n, f, <<>>, <<>>)
    ELSE IF n[h].hdr = None THEN NatRet(n, NativeReject, <<>>, <<>>)
    ELSE LET t == unwrap(n[h].hdr)
         IN IF stride # 0 /\ stride < NaturalStride(t) THEN NatRet(n, NativeReject, <<>>, <<>>)
            ELSE NatRet(n, 0, <<(IF stride = 0 THEN NaturalStride(t) ELSE stride) * t[2]>>, <<>>)

\* decode-to-buffer(handle, pointer, length, stride) -> status
charls_jpegls_decoder_decode_to_buffer(n, h, dst, len, stride, f) ==
    IF ~Usable(n, h, "decoder") THEN NatRet(n, NativeReject, <<>>, dst)
    ELSE IF f # 0 THEN NatRet(n, f, <<>>, dst)
    ELSE IF n[h].hdr = None \/ n[h].src.state # "live" THEN NatRet(n, NativeReject, <<>>, dst)
    ELSE LET t == unwrap(n[h].hdr)
             s == IF stride = 0 THEN NaturalStride(t) ELSE stride
             px == Rows(n[h].src.data, t, s, 1)
         IN IF s < NaturalStride(t) \/ len < Len(px) THEN NatRet(n, NativeReject, <<>>, dst)
            ELSE NatRet(n, 0, <<>>, px \o SubSeq(dst, Len(px) + 1, Len(dst)))

\* set-frame-info(handle, frame_info) -> status
charls_jpegls_encoder_set_frame_info(n, h, t, f) ==
    IF ~Usable(n, h, "encoder") THEN NatRet(n, NativeReject, <<>>, <<>>)
    ELSE IF f # 0 THEN NatRet(n, f, <<>>, <<>>)
    ELSE IF ~ValidFrame(t) THEN NatRet(n, NativeReject, <<>>, <<>>)
    ELSE NatRet([n EXCEPT ![h].fi = Some(t)], 0, <<>>, <<>>)

\* get-estimated-destination-size(handle) -> size + status
charls_jpegls_encoder_get_estimated_destination_size(n, h, f) ==
    IF ~Usable(n, h, "encoder") THEN NatRet(n, NativeReject, <<>>, <<>>)
    ELSE IF f # 0 THEN NatRet(n, f, <<>>, <<>>)
    ELSE IF n[h].fi = None THEN NatRet(n, NativeReject, <<>>, <<>>)
    ELSE NatRet(n, 0, <<HeaderLen + SampleCount(unwrap(n[h].fi)) + Slack>>, <<>>)

\* set-destination-buffer(handle, pointer, length) -> status
charls_jpegls_encoder_set_destination_buffer(n, h, buf, len, f) ==
    IF ~Usable(n, h, "encoder") THEN NatRet(n, NativeReject, <<>>, <<>>)
    ELSE IF f # 0 THEN NatRet(n, f, <<>>, <<>>)
    ELSE NatRet([n EXCEPT ![h].dst = Live(buf, <<len>>), ![h].written = 0], 0, <<>>, <<>>)

\* set-near-lossless(handle, value) -> status
charls_jpegls_encoder_set_near_lossless(n, h, near, f) ==
    IF ~Usable(n, h, "encoder") THEN NatRet(n, NativeReject, <<>>, <<>>)
    ELSE IF f # 0 THEN NatRet(n, f, <<>>, <<>>)
    ELSE IF near < 0 THEN NatRet(n, NativeReject, <<>>, <<>>)
    ELSE NatRet([n EXCEPT ![h].near = near], 0, <<>>, <<>>)

\* encode-from-buffer(handle, pointer, length, reserved=0) -> status; the
\* stream is written through the destination pointer bound on the handle
charls_jpegls_encoder_encode_from_buffer(n, h, data, dst, f) ==
    IF ~Usable(n, h, "encoder") THEN NatRet(n, NativeReject, <<>>, dst)
    ELSE IF f # 0 THEN NatRet(n, f, <<>>, dst)
    ELSE IF n[h].fi = None \/ n[h].dst.state # "live" THEN NatRet(n, NativeReject, <<>>, dst)
    ELSE LET t == unwrap(n[h].fi)
             out == Stream(t, n[h].near, data)
         IN IF Len(data) # SampleCount(t) \/ Len(out) > n[h].dst.data[1]
            THEN NatRet(n, NativeReject, <<>>, dst)
            ELSE NatRet([n EXCEPT ![h].written = Len(out)], 0, <<>>,
                        out \o SubSeq(dst, Len(out) + 1, Len(dst)))

\* the transfer is given a mutable pointer to the pixels and may use them
\* as scratch space: what it leaves in the buffer it was given
native_pixels_after(data, orc) ==
    IF orc.scribble THEN [i \in 1..Len(data) |-> (data[i] + 1) % (MaxByte + 1)] ELSE data

\* get-bytes-written(handle) -> size + status
charls_jpegls_encoder_get_bytes_written(n, h, f) ==
    IF ~Usable(n, h, "encoder") THEN NatRet(n, NativeReject, <<>>, <<>>)
    ELSE IF f # 0 THEN NatRet(n, f, <<>>, <<>>)
    ELSE NatRet(n, 0, <<n[h].written>>, <<>>)

----------------------------------------------------------------------------
(* The wrapper: impl CharLS.                                               *)
(* An operation is a chain of steps over a context: the session, the       *)
(* native state, the handle, the calls made so far, the local variables    *)
(* and the result, Pending until the operation returns.  A step does       *)
(* nothing once the operation has returned.                                *)

Ev(fn, h, buf, len, arg, st, out) ==
    [fn |-> fn, h |-> h, buf |-> buf, len |-> len, arg |-> arg, st |-> st, out |-> out]

Alloc(buf, len) == Ev("alloc", NULL, buf, len, <<>>, 0, <<>>)

\* CharLS::default(), lib.rs 65-69
Default == [encoder |-> None, decoder |-> None, live |-> TRUE]

Pending == [tag |-> "Pending", kind |-> "", code |-> 0, val |-> <<>>]

Running(ctx) == ctx.result = Pending

\* vec![0; size]
vec_one_more(size) == Zeros(size + 1)

vec(size) == Zeros(size)

\* Vec::truncate, lib.rs 200
truncate_keep(v, size) == v

truncate_short(v, size) == SubSeq(v, 1, size - 1)

truncate(v, size) == IF size >= Len(v) THEN v ELSE SubSeq(v, 1, size)

\* src.to_vec(), lib.rs 184
to_vec(src) == src

\* the slot already holds a handle
Held(self, n, h) == [self |-> self, nat |-> n, h |-> h, ev |-> <<>>]

\* lib.rs 82-83 and 206-207: self.decoder = Some(create()); self.decoder.unwrap()
StoreDecoder_as_encoder(self, c) ==
    [self |-> [self EXCEPT !.encoder = Some(c.out[1])], nat |-> c.nat,
     h |-> unwrap(Some(c.out[1])),
     ev |-> <<Ev("decoder_create", c.out[1], "", 0, <<>>, c.st, c.out)>>]

StoreDecoder(self, c) ==
    [self |-> [self EXCEPT !.decoder = Some(c.out[1])], nat |-> c.nat,
     h |-> unwrap(Some(c.out[1])),
     ev |-> <<Ev("decoder_create", c.out[1], "", 0, <<>>, c.st, c.out)>>]

\* lib.rs 142-143: self.encoder = Some(create()); self.encoder.unwrap()
StoreEncoder(self, c) ==
    [self |-> [self EXCEPT !.encoder = Some(c.out[1])], nat |-> c.nat,
     h |-> unwrap(Some(c.out[1])),
     ev |-> <<Ev("encoder_create", c.out[1], "", 0, <<>>, c.st, c.out)>>]

\* lib.rs 81-84 and 205-208
ensure_decoder_shared(self, n, s, orc) ==
    IF is_some(self.decoder) THEN Held(self, n, unwrap(self.decoder))
    ELSE IF \E h \in Handles : Usable(n, h, "decoder")
    THEN Held([self EXCEPT !.decoder = Some(CHOOSE h \in Handles : Usable(n, h, "decoder"))],
              n, CHOOSE h \in Handles : Usable(n, h, "decoder"))
    ELSE StoreDecoder(self, native_create(n, "decoder", s, orc))

ensure_decoder_again(self, n, s, orc) ==
    StoreDecoder(self, native_create(n, "decoder", s, orc))

ensure_decoder(self, n, s, orc) ==
    IF is_some(self.decoder) THEN Held(self, n, unwrap(self.decoder))
    ELSE StoreDecoder(self, native_create(n, "decoder", s, orc))

\* lib.rs 141-144
ensure_encoder(self, n, s, orc) ==
    IF is_some(self.encoder) THEN Held(self, n, unwrap(self.encoder))
    ELSE StoreEncoder(self, native_create(n, "encoder", s, orc))

\* lib.rs 86 and 146 and 210
handle_is_null_never(h) == FALSE

handle_is_null(h) == is_null(h)

\* lib.rs 86-88, 146-148, 210-212: the operation starts, or returns InitCodec
Start(a) ==
    [self |-> a.self, nat |-> a.nat, h |-> a.h, ev |-> a.ev,
     result |-> IF handle_is_null(a.h) THEN InitCodec ELSE Pending,
     err |-> 0, out |-> <<>>, size |-> 0, dst |-> <<>>, data |-> <<>>,
     src |-> <<>>, given |-> <<>>]

\* let err = unsafe { native call }: c is what the native call returned
Call(ctx, fn, buf, len, arg, c) ==
    [ctx EXCEPT !.nat = c.nat,
                !.ev = Append(@, Ev(fn, ctx.h, buf, len, arg, c.st, c.out)),
                !.err = c.st,
                !.out = c.out]

\* a native call that writes through the destination pointer
CallDst(ctx, fn, buf, len, arg, c) ==
    [Call(ctx, fn, buf, len, arg, c) EXCEPT !.dst = c.buf]

\* translate_error(err)?
Question(ctx) ==
    IF is_err(translate_error(ctx.err)) THEN [ctx EXCEPT !.result = translate_error(ctx.err)]
    ELSE ctx

\* an out-parameter keeps its value unless the native call wrote it
OutOr(out, d) == IF out = <<>> THEN d ELSE out[1]

\* lib.rs 90-94 and 214-217
BindSource_once(ctx, src, orc) ==
    IF ~Running(ctx) \/ ctx.nat[ctx.h].src.state # "none" THEN ctx
    ELSE Question(Call(ctx, "decoder_set_source_buffer", "src", Len(src), <<>>,
             charls_jpegls_decoder_set_source_buffer(ctx.nat, ctx.h, "src", src, Forced(orc, 1))))

BindSource(ctx, src, orc) ==
    IF ~Running(ctx) THEN ctx
    ELSE Question(Call(ctx, "decoder_set_source_buffer", "src", Len(src), <<>>,
             charls_jpegls_decoder_set_source_buffer(ctx.nat, ctx.h, "src", src, Forced(orc, 1))))

\* lib.rs 96-98 and 219-220
ReadHeader(ctx, orc) ==
    IF ~Running(ctx) THEN ctx
    ELSE Question(Call(ctx, "decoder_read_header", "", 0, <<>>,
             charls_jpegls_decoder_read_header(ctx.nat, ctx.h, Forced(orc, 2))))

\* lib.rs 100-110
size_option_always(size_err, computed_size) == Some(computed_size)

size_option(size_err, computed_size) ==
    IF size_err = 0 THEN Some(computed_size) ELSE None

\* lib.rs 105-113, 127: the match on the size the query left
MatchSize(ctx) ==
    IF size_option(ctx.err, OutOr(ctx.out, 0)) = None THEN [ctx EXCEPT !.result = ComputeSize]
    ELSE [ctx EXCEPT !.size = unwrap(size_option(ctx.err, OutOr(ctx.out, 0)))]

\* lib.rs 100-113, 127
DestinationSize(ctx, stride, orc) ==
    IF ~Running(ctx) THEN ctx
    ELSE MatchSize(Call(ctx, "decoder_get_destination_size", "", 0, <<stride>>,
             charls_jpegls_decoder_get_destination_size(ctx.nat, ctx.h, stride, Forced(orc, 3))))

\* lib.rs 114 and 169: let mut dst = vec![0; size]
AllocDst(ctx) ==
    IF ~Running(ctx) THEN ctx
    ELSE [ctx EXCEPT !.dst = vec(ctx.size), !.ev = Append(@, Alloc("dst", Len(vec(ctx.size))))]

\* lib.rs 115-124
DecodeToBuffer(ctx, stride, orc) ==
    IF ~Running(ctx) THEN ctx
    ELSE Question(CallDst(ctx, "decoder_decode_to_buffer", "dst", ctx.size, <<stride>>,
             charls_jpegls_decoder_decode_to_buffer(ctx.nat, ctx.h, ctx.dst, ctx.size, stride,
                                                    Forced(orc, 4))))

\* lib.rs 125: Ok(dst)
OkDst(ctx) == IF ~Running(ctx) THEN ctx ELSE [ctx EXCEPT !.result = Ok(ctx.dst)]

\* every buffer an operation binds is borrowed, or owned by the operation,
\* for the duration of the call only
EndBorrow(n, h) ==
    IF h \in Handles THEN [n EXCEPT ![h].src = Stale(@), ![h].dst = Stale(@)] ELSE n

\* what the call leaves behind
Return(ctx) ==
    [self |-> ctx.self, nat |-> EndBorrow(ctx.nat, ctx.h), ev |-> ctx.ev, result |-> ctx.result,
     dst |-> ctx.dst, data |-> ctx.data, src |-> ctx.src, given |-> ctx.given]

\* lib.rs 80-129
decode_with_stride(self, n, s, src, stride, orc) ==
    Return(OkDst(DecodeToBuffer(AllocDst(DestinationSize(ReadHeader(BindSource(
        Start(ensure_decoder(self, n, s, orc)), src, orc), orc), stride, orc)), stride, orc)))

\* lib.rs 131-133
decode_unit_stride(self, n, s, src, orc) == decode_with_stride(self, n, s, src, 1, orc)

decode(self, n, s, src, orc) == decode_with_stride(self, n, s, src, 0, orc)

\* lib.rs 150-161
SetFrameInfo_transposed(ctx, frame_info, orc) ==
    IF ~Running(ctx) THEN ctx
    ELSE Question(Call(ctx, "encoder_set_frame_info", "", 0,
             charls_frame_info(FrameInfo(frame_info.height, frame_info.width,
                                         frame_info.bits_per_sample, frame_info.component_count)),
             charls_jpegls_encoder_set_frame_info(ctx.nat, ctx.h,
                 charls_frame_info(FrameInfo(frame_info.height, frame_info.width,
                                             frame_info.bits_per_sample,
                                             frame_info.component_count)),
                 Forced(orc, 1))))

SetFrameInfo(ctx, frame_info, orc) ==
    IF ~Running(ctx) THEN ctx
    ELSE Question(Call(ctx, "encoder_set_frame_info", "", 0, charls_frame_info(frame_info),
             charls_jpegls_encoder_set_frame_info(ctx.nat, ctx.h, charls_frame_info(frame_info),
                                                  Forced(orc, 1))))

\* the out-parameter size, lib.rs 163-165 and 196
StoreSize_lost(ctx) == ctx

StoreSize(ctx) == [ctx EXCEPT !.size = OutOr(ctx.out, @)]

\* lib.rs 163-167
EstimatedSize(ctx, orc) ==
    IF ~Running(ctx) THEN ctx
    ELSE Question(StoreSize(Call(ctx, "encoder_get_estimated_destination_size", "", 0, <<>>,
             charls_jpegls_encoder_get_estimated_destination_size(ctx.nat, ctx.h, Forced(orc, 2)))))

\* lib.rs 170-178
SetDestination(ctx, orc) ==
    IF ~Running(ctx) THEN ctx
    ELSE Question(Call(ctx, "encoder_set_destination_buffer", "dst", ctx.size, <<>>,
             charls_jpegls_encoder_set_destination_buffer(ctx.nat, ctx.h, "dst", ctx.size,
                                                          Forced(orc, 3))))

\* lib.rs 180-182
SetNear_nonzero(ctx, near, orc) ==
    IF ~Running(ctx) \/ near = 0 THEN ctx
    ELSE Question(Call(ctx, "encoder_set_near_lossless", "", 0, <<near>>,
             charls_jpegls_encoder_set_near_lossless(ctx.nat, ctx.h, near, Forced(orc, 4))))

SetNear(ctx, near, orc) ==
    IF ~Running(ctx) THEN ctx
    ELSE Question(Call(ctx, "encoder_set_near_lossless", "", 0, <<near>>,
             charls_jpegls_encoder_set_near_lossless(ctx.nat, ctx.h, near, Forced(orc, 4))))

\* lib.rs 184: let mut data = src.to_vec()
Staging(ctx, src) ==
    IF ~Running(ctx) THEN ctx
    ELSE [ctx EXCEPT !.data = to_vec(src), !.ev = Append(@, Alloc("data", Len(to_vec(src))))]

\* the pixel buffer handed to the native transfer is a *mut pointer: what
\* the native code left in it is in that buffer after the call
HandOver(ctx, content) == [ctx EXCEPT !.given = content]

WrittenThrough(ctx, buf, content) ==
    IF buf = "data" THEN [ctx EXCEPT !.data = content] ELSE [ctx EXCEPT !.src = content]

\* lib.rs 185-194
EncodeFromBuffer_caller(ctx, orc) ==
    IF ~Running(ctx) THEN ctx
    ELSE Question(WrittenThrough(
             CallDst(HandOver(ctx, ctx.src),
                     "encoder_encode_from_buffer", "src", Len(ctx.src), <<0>>,
                     charls_jpegls_encoder_encode_from_buffer(ctx.nat, ctx.h, ctx.src, ctx.dst,
                                                              Forced(orc, 5))),
             "src", native_pixels_after(ctx.src, orc)))

EncodeFromBuffer(ctx, orc) ==
    IF ~Running(ctx) THEN ctx
    ELSE Question(WrittenThrough(
             CallDst(HandOver(ctx, ctx.data),
                     "encoder_encode_from_buffer", "data", Len(ctx.data), <<0>>,
                     charls_jpegls_encoder_encode_from_buffer(ctx.nat, ctx.h, ctx.data, ctx.dst,
                                                              Forced(orc, 5))),
             "data", native_pixels_after(ctx.data, orc)))

\* lib.rs 196-198
BytesWritten(ctx, orc) ==
    IF ~Running(ctx) THEN ctx
    ELSE Question(StoreSize(Call(ctx, "encoder_get_bytes_written", "", 0, <<>>,
             charls_jpegls_encoder_get_bytes_written(ctx.nat, ctx.h, Forced(orc, 6)))))

\* lib.rs 200-201
OkTruncated(ctx) ==
    IF ~Running(ctx) THEN ctx ELSE [ctx EXCEPT !.result = Ok(truncate(ctx.dst, ctx.size))]

\* lib.rs 139: src: &[u8], the caller's pixel buffer during the call
Borrowed(ctx, src) == [ctx EXCEPT !.src = src]

\* lib.rs 135-202
encode(self, n, s, frame_info, near, src, orc) ==
    Return(OkTruncated(BytesWritten(EncodeFromBuffer(Staging(SetNear(SetDestination(AllocDst(
        EstimatedSize(SetFrameInfo(Borrowed(Start(ensure_encoder(self, n, s, orc)), src),
                                   frame_info, orc),
                      orc)), orc), near, orc), src), orc), orc)))

\* lib.rs 233-238
frame_info_swapped(t) == <<t[2], t[1], t[3], t[4]>>

frame_info_value(t) == charls_frame_info(FrameInfo(t[1], t[2], t[3], t[4]))

\* lib.rs 222-231
NativeFrameInfo(ctx, orc) ==
    IF ~Running(ctx) THEN ctx
    ELSE Question(Call(ctx, "decoder_get_frame_info", "", 0, <<>>,
             charls_jpegls_decoder_get_frame_info(ctx.nat, ctx.h, Forced(orc, 3))))

\* lib.rs 222-227 and 233-238
OkFrameInfo(ctx) ==
    IF ~Running(ctx) THEN ctx
    ELSE [ctx EXCEPT !.result =
             Ok(frame_info_value(IF ctx.out = <<>> THEN <<0, 0, 0, 0>> ELSE ctx.out))]

\* lib.rs 204-239
get_frame_info(self, n, s, src, orc) ==
    Return(OkFrameInfo(NativeFrameInfo(ReadHeader(BindSource(
        Start(ensure_decoder(self, n, s, orc)), src, orc), orc), orc)))

\* lib.rs 244-248, 250-254
DestroyIfSome(ctx, slot, fn, kind) ==
    IF is_some(slot)
    THEN [ctx EXCEPT !.nat = native_destroy(@, unwrap(slot), kind),
                     !.ev = Append(@, Ev(fn, unwrap(slot), "", 0, <<>>, 0, <<>>))]
    ELSE ctx

Dropped_usable(self, n) ==
    [self |-> self, nat |-> n, ev |-> <<>>, result |-> Ok(<<>>),
     dst |-> <<>>, data |-> <<>>, src |-> <<>>, given |-> <<>>]

Dropped(self, n) ==
    [self |-> [self EXCEPT !.live = FALSE], nat |-> n, ev |-> <<>>, result |-> Ok(<<>>),
     dst |-> <<>>, data |-> <<>>, src |-> <<>>, given |-> <<>>]

\* impl Drop for CharLS, lib.rs 242-256
drop_decoder_only(self, n) ==
    DestroyIfSome(Dropped(self, n), self.decoder, "decoder_destroy", "decoder")

drop(self, n) ==
    DestroyIfSome(DestroyIfSome(Dropped(self, n), self.decoder, "decoder_destroy", "decoder"),
                  self.encoder, "encoder_destroy", "encoder")

----------------------------------------------------------------------------
(* Inputs *)

\* every frame of 8-bit samples in one component; those of more than
\* MaxPixels samples match no pixel buffer
FrameInfos == {FrameInfo(w, h, 8, 1) : w \in 1..MaxDim, h \in 1..MaxDim}

\* pixel buffers: a ramp of every length from every starting value
Ramp(k, b) == [i \in 1..k |-> (i + b) % (MaxByte + 1)]

PixelBufs == {Ramp(k, b) : k \in 1..MaxPixels, b \in 0..MaxByte}

\* the single frame and the two buffers (one of matching size, one not)
\* used where the data does not matter
ProbeFrames == {FrameInfo(MaxDim, 1, 8, 1)}

ProbeBufs == {Ramp(MaxDim, 0), Ramp(1, 0)}

Nears == 0..MaxNear

Strides == 0..MaxStride

\* what the environment decides in one operation: whether native creation
\* yields null, and which native call on the handle (0: none) is forced to
\* fail with which code, and whether the native transfer overwrites the
\* pixel buffer it is given
NoOrc == [null |-> FALSE, at |-> 0, code |-> 0, scribble |-> FALSE]

NullOrc == [NoOrc EXCEPT !.null = TRUE]

Forcing(calls) == {[NoOrc EXCEPT !.at = k, !.code = c] : k \in 1..calls, c \in ErrCodes}

\* the transfer overwrites its input, and then succeeds or fails
Scribbling == {[NoOrc EXCEPT !.scribble = TRUE],
               [NoOrc EXCEPT !.scribble = TRUE, !.at = 5, !.code = 1]}

NoInput == [src |-> <<>>, stride |-> 0, near |-> 0, fi |-> <<>>]

\* encoded input that is no stream, and a stream cut short
Garbage == {<<>>, <<1, 1, 8, 1>>}

EncodedBefore == last.op = "encode" /\ last.result.tag = "Ok"

\* the buffers a caller passes to decode: garbage, or what encode returned
Encoded == Garbage \cup (IF EncodedBefore THEN {last.result.val} ELSE {})

Origin(src) ==
    IF EncodedBefore /\ src = last.result.val
    THEN <<[fi |-> last.in.fi, near |-> last.in.near, px |-> last.in.src]>>
    ELSE <<>>

Slots(self) == [encoder |-> self.encoder, decoder |-> self.decoder]

\* what the handle in a slot holds: nothing if there is no handle
InSlot(n, slot) == IF is_some(slot) /\ ~is_null(unwrap(slot)) THEN n[unwrap(slot)] ELSE NoHandle

\* what an operation finds on the session's handles when it starts: the
\* near-lossless parameter and the bindings earlier operations left
Was(self, n) ==
    [near |-> InSlot(n, self.encoder).near,
     dst |-> InSlot(n, self.encoder).dst.state,
     src |-> InSlot(n, self.decoder).src.state]

----------------------------------------------------------------------------
(* The state machine *)

Init ==
    /\ session = [s \in Sessions |-> Default]
    /\ nat = [h \in Handles |-> NoHandle]
    /\ last = [op |-> "new", s |-> 0, pre |-> Slots(Default), in |-> NoInput, orc |-> NoOrc,
               of |-> <<>>, ev |-> <<>>, result |-> Ok(<<>>), dst |-> <<>>, data |-> <<>>,
               src |-> <<>>, given |-> <<>>, was |-> Was(Default, [h \in Handles |-> NoHandle])]

Record(op, s, in, orc, of, r) ==
    [op |-> op, s |-> s, pre |-> Slots(session[s]), in |-> in, orc |-> orc, of |-> of,
     ev |-> r.ev, result |-> r.result, dst |-> r.dst, data |-> r.data,
     src |-> r.src, given |-> r.given, was |-> Was(session[s], nat)]

\* the call r, made on session s, takes effect
Apply(op, s, in, orc, of, r) ==
    /\ session' = [session EXCEPT ![s] = r.self]
    /\ nat' = r.nat
    /\ last' = Record(op, s, in, orc, of, r)

\* the environment's choices open to an operation that needs the slot
Orcs(slot, forcing) ==
    {NoOrc} \cup forcing \cup (IF slot = None THEN {NullOrc} ELSE {})

DecodeWithStride(s, forcing) ==
    /\ session[s].live
    /\ \E src \in Encoded, stride \in Strides, orc \in Orcs(session[s].decoder, forcing) :
          Apply("decode_with_stride", s, [NoInput EXCEPT !.src = src, !.stride = stride],
                orc, Origin(src), decode_with_stride(session[s], nat, s, src, stride, orc))

Decode(s, forcing) ==
    /\ session[s].live
    /\ \E src \in Encoded, orc \in Orcs(session[s].decoder, forcing) :
          Apply("decode", s, [NoInput EXCEPT !.src = src], orc, Origin(src),
                decode(session[s], nat, s, src, orc))

Encode(s, frames, bufs, forcing) ==
    /\ session[s].live
    /\ \E fi \in frames, near \in Nears, src \in bufs, orc \in Orcs(session[s].encoder, forcing) :
          Apply("encode", s,
                [NoInput EXCEPT !.src = src, !.near = near, !.fi = charls_frame_info(fi)],
                orc, <<>>, encode(session[s], nat, s, fi, near, src, orc))

GetFrameInfo(s, forcing) ==
    /\ session[s].live
    /\ \E src \in Encoded, orc \in Orcs(session[s].decoder, forcing) :
          Apply("get_frame_info", s, [NoInput EXCEPT !.src = src], orc, Origin(src),
                get_frame_info(session[s], nat, s, src, orc))

Drop(s) ==
    /\ session[s].live
    /\ Apply("drop", s, NoInput, NoOrc, <<>>, drop(session[s], nat))

\* the session a single caller drives
Solo == {1}

\* one session, every native failure, data of one frame
Next ==
    \E s \in Solo :
        \/ DecodeWithStride(s, Forcing(4))
        \/ Decode(s, Forcing(4))
        \/ Encode(s, ProbeFrames, ProbeBufs, Forcing(6) \cup Scribbling)
        \/ GetFrameInfo(s, Forcing(3))
        \/ Drop(s)

Spec == Init /\ [][Next]_vars

\* one session, every frame and pixel buffer, native calls fail only for
\* what they are given
NextData ==
    \E s \in Solo :
        \/ DecodeWithStride(s, {})
        \/ Decode(s, {})
        \/ Encode(s, FrameInfos, PixelBufs, {})
        \/ GetFrameInfo(s, {})
        \/ Drop(s)

SpecData == Init /\ [][NextData]_vars

\* the buffer every session encodes where several sessions run
OneBuf == {Ramp(MaxDim, 0)}

\* every session, in any order of their calls; native calls fail only for
\* what they are given, or creation yields null
NextSessions ==
    \E s \in Sessions :
        \/ Decode(s, {})
        \/ Encode(s, ProbeFrames, OneBuf, {})
        \/ GetFrameInfo(s, {})
        \/ Drop(s)

SpecSessions == Init /\ [][NextSessions]_vars

----------------------------------------------------------------------------
(* Reading the record of the last operation *)

Ops == {"decode_with_stride", "decode", "encode", "get_frame_info"}

Creates == {"decoder_create", "encoder_create"}

Destroys == {"decoder_destroy", "encoder_destroy"}

\* the native calls the last operation made on its handle
OnHandle == SelectSeq(last.ev, LAMBDA e : e.fn \notin Creates \cup {"alloc"})

Fns(ev) == [i \in 1..Len(ev) |-> ev[i].fn]

Has(fn) == \E i \in 1..Len(last.ev) : last.ev[i].fn = fn

Event(fn) == last.ev[CHOOSE i \in 1..Len(last.ev) : last.ev[i].fn = fn]

\* where in the record of the last operation the call fn is
At(fn) == CHOOSE i \in 1..Len(last.ev) : last.ev[i].fn = fn

\* the last operation made the call fn and the call succeeded
Done(fn) == Has(fn) /\ Event(fn).st = 0

\* the allocations of the buffer buf in the last operation
Allocs(buf) == {i \in 1..Len(last.ev) : last.ev[i].fn = "alloc" /\ last.ev[i].buf = buf}

\* the allocation of the buffer buf in the last operation
AllocOf(buf) == last.ev[CHOOSE i \in Allocs(buf) : TRUE]

\* the two handle kinds, the operations and the native calls of each
Kinds == {"decoder", "encoder"}

KindOf(op) == IF op = "encode" THEN "encoder" ELSE "decoder"

CreateOf(kind) == IF kind = "encoder" THEN "encoder_create" ELSE "decoder_create"

Other(kind) == IF kind = "encoder" THEN "decoder" ELSE "encoder"

\* the native calls of a kind
CallsOf(kind) ==
    IF kind = "encoder"
    THEN {"encoder_create", "encoder_set_frame_info", "encoder_get_estimated_destination_size",
          "encoder_set_destination_buffer", "encoder_set_near_lossless",
          "encoder_encode_from_buffer", "encoder_get_bytes_written", "encoder_destroy"}
    ELSE {"decoder_create", "decoder_set_source_buffer", "decoder_read_header",
          "decoder_get_destination_size", "decoder_decode_to_buffer",
          "decoder_get_frame_info", "decoder_destroy"}

\* the slot of a kind in a session (or in the slots an operation found)
Slot(self, kind) == IF kind = "encoder" THEN self.encoder ELSE self.decoder

\* the slot holds a handle that is not null
Active(slot) == slot # None /\ unwrap(slot) # NULL

\* seq is the beginning of order
Prefix(seq, order) == Len(seq) <= Len(order) /\ seq = SubSeq(order, 1, Len(seq))

\* the slot the last operation works on, after it
SlotOf(op, s) == IF op = "encode" THEN session[s].encoder ELSE session[s].decoder

----------------------------------------------------------------------------
(* Claims *)

\* C1: a handle that was created (non-null) is destroyed zero times while
\* its session lives and exactly once when the session has been dropped,
\* whatever operations ran or failed before; the drop issues exactly one
\* destroy call for it.
C1_DestroyedExactlyOnce ==
    /\ \A h \in Handles :
          nat[h].kind # "none" =>
              nat[h].destroyed = (IF session[nat[h].owner].live THEN 0 ELSE 1)
    /\ last.op = "drop" =>
          \A h \in Handles :
              nat[h].kind # "none" /\ nat[h].owner = last.s =>
                  Cardinality({i \in 1..Len(last.ev) :
                                  last.ev[i].h = h /\ last.ev[i].fn \in Destroys}) = 1

C1_Witness ==
    /\ last.op = "drop"
    /\ \E d \in Handles, e \in Handles :
          /\ session[last.s].decoder = Some(d) /\ nat[d].destroyed = 1 /\ nat[d].hdr = None
          /\ session[last.s].encoder = Some(e) /\ nat[e].destroyed = 1

\* C2: an operation that fails with InitCodec leaves its slot empty, and an
\* operation whose native creation is able to return a handle never fails
\* with InitCodec.
C2_NullCreationLeavesSlotEmpty ==
    last.op \in Ops =>
        /\ last.result = InitCodec => SlotOf(last.op, last.s) = None
        /\ ~last.orc.null => last.result # InitCodec

\* C3: Drop issues a destroy call only for a handle that is Active, never
\* for a null handle.
C3_NoDestroyOfNull ==
    last.op = "drop" =>
        \A i \in 1..Len(last.ev) :
            last.ev[i].h # NULL /\ last.ev[i].h \in Handles

\* C4: a native call other than the destination-size query that returns a
\* nonzero status c is the last thing the operation does, and the operation
\* returns the codec error carrying c and no output; an operation whose
\* native calls all return 0 on a non-null handle returns no error, and a
\* codec error is returned only with the code of the last call.
C4_FailFast ==
    last.op \in Ops =>
        /\ \A i \in 1..Len(last.ev) :
              last.ev[i].st # 0 /\ last.ev[i].fn # "decoder_get_destination_size" =>
                  /\ i = Len(last.ev)
                  /\ last.result = JpegLsError(last.ev[i].st)
                  /\ last.result.val = <<>>
        /\ (OnHandle # <<>> /\ \A i \in 1..Len(last.ev) : last.ev[i].st = 0) =>
              last.result.tag = "Ok"
        /\ last.result.kind = "JpegLsError" =>
              /\ last.ev # <<>>
              /\ last.ev[Len(last.ev)].st = last.result.code
              /\ last.result.code # 0

C4_Witness ==
    /\ last.op = "encode"
    /\ Len(OnHandle) = 3
    /\ last.result = JpegLsError(MaxErr)

\* C5: decode_with_stride (and decode) returns ComputeSize exactly when the
\* source was bound and the header read with status 0 and the size query
\* returned a nonzero status; then nothing was allocated and decode-to-buffer
\* was not called.  No other operation returns ComputeSize.
C5_ComputeSize ==
    /\ last.op \in {"decode_with_stride", "decode"} =>
          /\ last.result = ComputeSize <=>
                /\ Has("decoder_get_destination_size")
                /\ Event("decoder_get_destination_size").st # 0
          /\ last.result = ComputeSize =>
                /\ Fns(OnHandle) = <<"decoder_set_source_buffer", "decoder_read_header",
                                     "decoder_get_destination_size">>
                /\ OnHandle[1].st = 0 /\ OnHandle[2].st = 0
                /\ ~Has("alloc") /\ ~Has("decoder_decode_to_buffer")
                /\ last.dst = <<>>
                /\ last.ev[Len(last.ev)].fn = "decoder_get_destination_size"
    /\ last.op \notin {"decode_with_stride", "decode"} => last.result # ComputeSize

C5_Witness ==
    /\ last.op = "decode_with_stride"
    /\ last.result = ComputeSize
    /\ last.orc.at = 3

\* C6: when native creation returns null the operation returns InitCodec
\* with no output, and the create call is its only native call: no call is
\* ever issued on a null handle.
C6_NullHandleNotUsed ==
    last.op \in Ops =>
        /\ (\E i \in 1..Len(last.ev) : last.ev[i].fn \in Creates /\ last.ev[i].h = NULL) =>
              /\ last.result = InitCodec
              /\ Len(last.ev) = 1
              /\ last.dst = <<>> /\ last.data = <<>>
        /\ \A i \in 1..Len(OnHandle) : OnHandle[i].h # NULL

C6_Witness ==
    /\ last.op = "get_frame_info"
    /\ last.orc.null
    /\ last.result = InitCodec
    /\ Fns(last.ev) = <<"decoder_create">>

\* C7: a successful encode returns as many bytes as the native encoder
\* reports written, and they are the first bytes of the destination buffer
\* bound in that call.
C7_EncodeLength ==
    (last.op = "encode" /\ last.result.tag = "Ok") =>
        /\ Has("encoder_get_bytes_written") /\ Has("encoder_set_destination_buffer")
        /\ Event("encoder_set_destination_buffer").buf = "dst"
        /\ Len(last.result.val) = Event("encoder_get_bytes_written").out[1]
        /\ last.result.val = SubSeq(last.dst, 1, Event("encoder_get_bytes_written").out[1])

C7_Witness ==
    /\ last.op = "encode" /\ last.result.tag = "Ok"
    /\ Len(last.result.val) < Len(last.dst)
    /\ Len(last.in.src) = MaxPixels

\* C8: every decode step is the step decode_with_stride takes with stride 0
\* from the same state, input and native behaviour: same native calls with
\* the same arguments, same result, same session and handle state after.
C8_DecodeIsStrideZero ==
    [][last'.op = "decode" =>
          LET r == decode_with_stride(session[last'.s], nat, last'.s, last'.in.src, 0, last'.orc)
          IN /\ session'[last'.s] = r.self
             /\ nat' = r.nat
             /\ last'.ev = r.ev
             /\ last'.result = r.result
             /\ last'.dst = r.dst
             /\ last'.in.stride = 0]_vars

C8_Witness ==
    /\ last.op = "decode"
    /\ last.result.tag = "Ok"
    /\ Event("decoder_decode_to_buffer").arg = <<0>>
    /\ Len(last.result.val) = MaxDim

\* C9: get_frame_info makes, in order, create (exactly when the decoder slot
\* was empty), bind source, read header, get frame info, stopping at the
\* first failure; it allocates nothing; on success it returns the four
\* fields the native call reported.
C9_FrameInfoOnly ==
    last.op = "get_frame_info" =>
        LET expected == (IF last.pre.decoder = None THEN <<"decoder_create">> ELSE <<>>)
                        \o <<"decoder_set_source_buffer", "decoder_read_header",
                             "decoder_get_frame_info">>
        IN /\ Len(last.ev) <= Len(expected)
           /\ Len(last.ev) >= (IF last.pre.decoder = None THEN 1 ELSE 0)
           /\ Fns(last.ev) = SubSeq(expected, 1, Len(last.ev))
           /\ last.dst = <<>>
           /\ last.result.tag = "Ok" =>
                 /\ Len(last.ev) = Len(expected)
                 /\ last.result.val = last.ev[Len(last.ev)].out
                 /\ last.result.val = unwrap(nat[unwrap(session[last.s].decoder)].hdr)

C9_Witness ==
    /\ last.op = "get_frame_info"
    /\ last.result = Ok(<<MaxDim, 1, 8, 1>>)
    /\ last.pre.decoder # None

\* C10: decode of what a successful encode with near = 0 returned, on a
\* session whose decoder handle is not null, returns exactly the pixels that
\* were encoded.
C10_RoundTrip ==
    (/\ last.op = "decode"
     /\ last.of # <<>>
     /\ session[last.s].decoder # Some(NULL)
     /\ last.orc.at = 0) =>
        (last.of[1].near = 0 => last.result = Ok(last.of[1].px))

C10_Witness ==
    /\ last.op = "decode"
    /\ last.of # <<>>
    /\ last.of[1].near = 0
    /\ Len(last.of[1].px) = MaxPixels
    /\ last.result = Ok(last.of[1].px)
    /\ last.pre.decoder # None

C12_DecodeOrder ==
    last.op \in {"decode_with_stride", "decode"} =>
        /\ Prefix(Fns(OnHandle), <<"decoder_set_source_buffer", "decoder_read_header",
                                   "decoder_get_destination_size", "decoder_decode_to_buffer">>)
        /\ Allocs("dst") # {} =>
              /\ Allocs("dst") = {At("decoder_get_destination_size") + 1}
              /\ Done("decoder_get_destination_size")
              /\ Event("alloc").len = Event("decoder_get_destination_size").out[1]
              /\ Len(last.dst) = Event("alloc").len
        /\ Has("decoder_decode_to_buffer") =>
              /\ Allocs("dst") = {At("decoder_decode_to_buffer") - 1}
              /\ Event("decoder_decode_to_buffer").buf = "dst"
              /\ Event("decoder_decode_to_buffer").len = Event("alloc").len
              /\ Event("decoder_decode_to_buffer").arg = <<last.in.stride>>
              /\ Event("decoder_get_destination_size").arg = <<last.in.stride>>

C12_Witness ==
    /\ last.op = "decode_with_stride"
    /\ last.in.stride = MaxStride
    /\ last.result.tag = "Ok"
    /\ Event("decoder_decode_to_buffer").len = Len(last.result.val)
    /\ Len(last.result.val) = MaxStride

\* C13: encode calls, in order, set frame info, get estimated destination
\* size, set destination buffer, set near-lossless, encode from buffer, get
\* bytes written.  The destination buffer has exactly the estimated length
\* and that length is the one passed when it is bound; the transfer is never
\* issued before both the destination buffer and the near-lossless parameter
\* have been set successfully in that same call.
C13_EncodeOrder ==
    last.op = "encode" =>
        /\ Prefix(Fns(OnHandle), <<"encoder_set_frame_info",
                                   "encoder_get_estimated_destination_size",
                                   "encoder_set_destination_buffer",
                                   "encoder_set_near_lossless",
                                   "encoder_encode_from_buffer",
                                   "encoder_get_bytes_written">>)
        /\ Allocs("dst") # {} =>
              /\ Allocs("dst") = {At("encoder_get_estimated_destination_size") + 1}
              /\ Done("encoder_get_estimated_destination_size")
              /\ AllocOf("dst").len = Event("encoder_get_estimated_destination_size").out[1]
              /\ Len(last.dst) = AllocOf("dst").len
        /\ Has("encoder_set_destination_buffer") =>
              /\ Allocs("dst") = {At("encoder_set_destination_buffer") - 1}
              /\ Event("encoder_set_destination_buffer").buf = "dst"
              /\ Event("encoder_set_destination_buffer").len = AllocOf("dst").len
        /\ Has("encoder_encode_from_buffer") =>
              /\ Done("encoder_set_destination_buffer")
              /\ Done("encoder_set_near_lossless")
              /\ At("encoder_set_destination_buffer") < At("encoder_encode_from_buffer")
              /\ At("encoder_set_near_lossless") < At("encoder_encode_from_buffer")

C13_Witness ==
    /\ last.op = "encode"
    /\ last.in.near = MaxNear
    /\ last.result.tag = "Ok"
    /\ Len(OnHandle) = 6
    /\ Event("encoder_set_destination_buffer").len = Len(last.dst)
    /\ Len(last.dst) > Len(last.result.val)

\* C14: native creation of a kind is called only while the slot of that kind
\* is empty, so at most once per session and kind; a non-null handle it
\* returns is stored and is then a live handle of that kind.  Once a slot
\* holds a non-null handle, every later operation of that kind makes its
\* native calls on that handle, calls no create, and leaves the slot value
\* as it was, whether the operation succeeds or fails, until the session is
\* released.
C14_HandleCreatedOnce ==
    [][/\ \A s \in Sessions, k \in Kinds :
             /\ Slot(session[s], k) # None => Slot(session'[s], k) = Slot(session[s], k)
             /\ Active(Slot(session[s], k)) =>
                   /\ nat'[unwrap(Slot(session[s], k))].kind = k
                   /\ session'[s].live => nat'[unwrap(Slot(session[s], k))].destroyed = 0
       /\ last'.op \in Ops =>
             \A k \in Kinds :
                 /\ \A i \in 1..Len(last'.ev) :
                       last'.ev[i].fn = CreateOf(k) =>
                           /\ i = 1 /\ k = KindOf(last'.op)
                           /\ Slot(session[last'.s], k) = None
                           /\ Slot(session'[last'.s], k) = Some(last'.ev[i].h)
                           /\ last'.ev[i].h # NULL =>
                                 /\ nat[last'.ev[i].h].kind = "none"
                                 /\ nat'[last'.ev[i].h].kind = k
                                 /\ nat'[last'.ev[i].h].destroyed = 0
                 /\ (Active(Slot(session[last'.s], k)) /\ k = KindOf(last'.op)) =>
                       /\ Len(last'.ev) > 0
                       /\ \A i \in 1..Len(last'.ev) :
                             /\ last'.ev[i].fn \notin Creates
                             /\ last'.ev[i].fn # "alloc" =>
                                   last'.ev[i].h = unwrap(Slot(session[last'.s], k))]_vars

C14_Witness ==
    /\ last.op = "decode"
    /\ Active(last.pre.decoder)
    /\ last.result.tag = "Err"
    /\ session[last.s].decoder = last.pre.decoder
    /\ Len(OnHandle) = 4
    /\ nat[unwrap(last.pre.decoder)].hdr # None

\* C15: when encode issues the transfer, the near-lossless parameter in
\* effect on the encoder handle is the near argument of that same encode: it
\* was set, successfully, earlier in the call, and the stream the transfer
\* produces is quantised with it.  A value an earlier encode left on the
\* handle is never used.
C15_NearOfThisCall ==
    (last.op = "encode" /\ Has("encoder_encode_from_buffer")) =>
        /\ Done("encoder_set_near_lossless")
        /\ Event("encoder_set_near_lossless").arg = <<last.in.near>>
        /\ Event("encoder_set_near_lossless").h = Event("encoder_encode_from_buffer").h
        /\ At("encoder_set_near_lossless") < At("encoder_encode_from_buffer")
        /\ nat[Event("encoder_encode_from_buffer").h].near = last.in.near
        /\ Event("encoder_encode_from_buffer").st = 0 =>
              SubSeq(last.dst, 1, HeaderLen + Len(last.in.src))
                  = Stream(last.in.fi, last.in.near, last.in.src)

C15_Witness ==
    /\ last.op = "encode"
    /\ last.was.near = MaxNear
    /\ last.in.near = 0
    /\ last.result = Ok(Stream(last.in.fi, 0, last.in.src))
    /\ last.result # Ok(Stream(last.in.fi, MaxNear, last.in.src))

\* C16: encode never hands the caller's pixel buffer to the native transfer:
\* the buffer it passes is a staging copy made in that call, of the same
\* length and contents as the caller's buffer.  Whatever the native code
\* writes into the buffer it is given, the caller's buffer is unchanged
\* after encode, on success and on failure.
C16_CallerPixelsUntouched ==
    last.op = "encode" =>
        /\ last.src = last.in.src
        /\ Has("encoder_encode_from_buffer") =>
              /\ Event("encoder_encode_from_buffer").buf = "data"
              /\ Allocs("data") = {At("encoder_encode_from_buffer") - 1}
              /\ AllocOf("data").len = Len(last.in.src)
              /\ Event("encoder_encode_from_buffer").len = Len(last.in.src)
              /\ last.given = last.in.src
              /\ last.data = native_pixels_after(last.in.src, last.orc)

C16_Witness ==
    /\ last.op = "encode"
    /\ last.orc.scribble
    /\ last.result.tag = "Ok"
    /\ last.data # last.in.src
    /\ last.given = last.in.src
    /\ last.src = last.in.src

\* C17: no native call is ever issued on a handle that has been destroyed
\* (a handle is destroyed at most once, and nothing is called on it after),
\* and no operation runs on a session that has been released: a released
\* session and its handles stay as the release left them.
C17_NothingAfterRelease ==
    [][/\ \A i \in 1..Len(last'.ev) :
             (last'.ev[i].fn \notin Creates /\ last'.ev[i].h \in Handles) =>
                 /\ nat[last'.ev[i].h].destroyed = 0
                 /\ \A j \in 1..(i - 1) :
                       last'.ev[j].fn \in Destroys => last'.ev[j].h # last'.ev[i].h
       /\ \A s \in Sessions :
             ~session[s].live =>
                 /\ last'.s # s
                 /\ session'[s] = session[s]
                 /\ \A h \in Handles : nat[h].owner = s => nat'[h] = nat[h]]_vars

C17_Witness ==
    /\ last.op = "drop"
    /\ ~session[last.s].live
    /\ last.was.src = "stale" /\ last.was.dst = "stale"
    /\ Len(last.ev) = 2
    /\ \A i \in 1..2 : nat[last.ev[i].h].destroyed = 1 /\ nat[last.ev[i].h].owner = last.s

\* C18: for any number of sessions whose calls happen in any order, native
\* creation returning a fresh handle each time: no handle is held by two
\* sessions (nor in both slots of one), every native call of an operation
\* targets a handle held in a slot of the session it runs on, an operation
\* leaves every other session and the handles it holds untouched, and the
\* handles of a released session are neither held nor used by another one.
C18_SessionsDisjoint ==
    [][/\ \A s \in Sessions, t \in Sessions, k \in Kinds, m \in Kinds :
             (Active(Slot(session'[s], k)) /\ <<s, k>> # <<t, m>>) =>
                 Slot(session'[s], k) # Slot(session'[t], m)
       /\ \A h \in Handles :
             nat'[h].kind # "none" =>
                 Slot(session'[nat'[h].owner], nat'[h].kind) = Some(h)
       /\ \A i \in 1..Len(last'.ev) :
             last'.ev[i].h \in Handles =>
                 /\ Some(last'.ev[i].h) \in {session'[last'.s].decoder, session'[last'.s].encoder}
                 /\ nat'[last'.ev[i].h].owner = last'.s
       /\ \A t \in Sessions \ {last'.s} :
             /\ session'[t] = session[t]
             /\ \A h \in Handles : nat[h].owner = t => nat'[h] = nat[h]]_vars

C18_Witness ==
    /\ ~session[1].live
    /\ Active(session[1].decoder) /\ Active(session[1].encoder)
    /\ last.s = 2
    /\ last.op = "decode"
    /\ last.result.tag = "Ok"
    /\ Active(session[2].encoder)
    /\ Cardinality({session[1].decoder, session[1].encoder,
                    session[2].decoder, session[2].encoder}) = 4

\* C19: every native call that reads or writes through a bound buffer (read
\* header, decode to buffer, encode from buffer) comes, in the same
\* operation, after a successful bind of a buffer of that operation (the
\* caller's source, or the destination allocated in the call) that is still
\* allocated when the call returns.  No operation relies on a binding an
\* earlier operation left, although between operations the handle may hold
\* a binding to a buffer that is gone.
C19_BoundInSameCall ==
    /\ \A h \in Handles : nat[h].src.state # "live" /\ nat[h].dst.state # "live"
    /\ last.op \in Ops =>
          /\ Has("decoder_read_header") =>
                /\ Done("decoder_set_source_buffer")
                /\ At("decoder_set_source_buffer") < At("decoder_read_header")
                /\ Event("decoder_set_source_buffer").h = Event("decoder_read_header").h
                /\ Event("decoder_set_source_buffer").buf = "src"
                /\ Event("decoder_set_source_buffer").len = Len(last.in.src)
          /\ Has("decoder_decode_to_buffer") =>
                /\ Done("decoder_set_source_buffer") /\ Done("decoder_read_header")
                /\ Event("decoder_decode_to_buffer").buf = "dst"
                /\ Allocs("dst") = {At("decoder_decode_to_buffer") - 1}
          /\ Has("encoder_encode_from_buffer") =>
                /\ Done("encoder_set_destination_buffer")
                /\ At("encoder_set_destination_buffer") < At("encoder_encode_from_buffer")
                /\ Event("encoder_set_destination_buffer").h
                       = Event("encoder_encode_from_buffer").h
                /\ Event("encoder_set_destination_buffer").buf = "dst"
                /\ Allocs("dst") = {At("encoder_set_destination_buffer") - 1}
                /\ Event("encoder_encode_from_buffer").buf = "data"
                /\ Allocs("data") = {At("encoder_encode_from_buffer") - 1}
          /\ \A i \in 1..Len(last.ev) :
                last.ev[i].st = NativeReject =>
                    last.ev[i].fn \notin {"decoder_read_header"}
                    \/ ~ValidStream(last.in.src)

C19_Witness ==
    /\ last.op = "decode"
    /\ last.was.src = "stale"
    /\ last.result.tag = "Ok"
    /\ nat[Event("decoder_read_header").h].src.state = "stale"

\* C20: the two slots of a session are independent.  A decoder operation
\* (decode, decode_with_stride, get_frame_info) issues decoder calls only and
\* neither creates, uses nor changes the encoder slot or an encoder handle;
\* encode issues encoder calls only and leaves the decoder slot and every
\* decoder handle as they were.  This holds for failing operations too,
\* InitCodec included.
C20_SlotsIndependent ==
    [][last'.op \in Ops =>
          /\ Slot(session'[last'.s], Other(KindOf(last'.op)))
                 = Slot(session[last'.s], Other(KindOf(last'.op)))
          /\ \A h \in Handles :
                /\ nat[h].kind = Other(KindOf(last'.op)) => nat'[h] = nat[h]
                /\ nat'[h].kind = Other(KindOf(last'.op)) => nat[h] = nat'[h]
          /\ \A i \in 1..Len(last'.ev) :
                /\ last'.ev[i].fn \in CallsOf(KindOf(last'.op)) \cup {"alloc"}
                /\ last'.ev[i].h \in Handles =>
                      /\ nat'[last'.ev[i].h].kind = KindOf(last'.op)
                      /\ Some(last'.ev[i].h) = Slot(session'[last'.s], KindOf(last'.op))]_vars

C20_Witness ==
    /\ last.op = "encode"
    /\ last.result = InitCodec
    /\ session[last.s].encoder = Some(NULL)
    /\ Active(last.pre.decoder)
    /\ session[last.s].decoder = last.pre.decoder
    /\ nat[unwrap(last.pre.decoder)].src.state = "stale"
    /\ nat[unwrap(last.pre.decoder)].destroyed = 0

====
